---- MODULE Spec2Model ----
(***************************************************************************)
(* A model of rustic_sql: one run of the program (src/src/main.rs) takes a *)
(* statement text, tokenizes it, parses it into a statement tree and       *)
(* executes the tree against one comma-separated table file.               *)
(*                                                                         *)
(* Text is modelled as a sequence of one-character strings, so that the    *)
(* tokenizer, the line reader, the field splitter and the joiner do the    *)
(* work the code does.  Ordinals are zero-based as in the code; a field    *)
(* with ordinal idx of a row is row[idx + 1].                              *)
(***************************************************************************)
EXTENDS Integers, Sequences, FiniteSets, TLC

(***************************************************************************)
(* Characters and strings                                                  *)
(***************************************************************************)

\* The characters of the model in ascending byte order (a subset of ASCII).
Ascii ==
    << "\n", " ", "!", "'", "(", ")", "*", ",",
       "0", "1", "2", "3", "4", "5", "6", "7", "8", "9", ";", "<", "=", ">",
       "A", "B", "C", "D", "E", "F", "G", "H", "I", "J", "K", "L", "M",
       "N", "O", "P", "Q", "R", "S", "T", "U", "V", "W", "X", "Y", "Z", "_",
       "a", "b", "c", "d", "e", "f", "g", "h", "i", "j", "k", "l", "m",
       "n", "o", "p", "q", "r", "s", "t", "u", "v", "w", "x", "y", "z" >>

Chars == {Ascii[i] : i \in 1..Len(Ascii)}

\* The position of a character in the byte order.
Code == [c \in Chars |-> CHOOSE i \in 1..Len(Ascii) : Ascii[i] = c]

UpperLetters == {Ascii[i] : i \in Code["A"]..Code["Z"]}
LowerLetters == {Ascii[i] : i \in Code["a"]..Code["z"]}
Digits == {Ascii[i] : i \in Code["0"]..Code["9"]}

\* A variant of IsAlphabetic that knows the lower-case letters only.
IsLowercase(ch) == ch \in LowerLetters

\* char::is_alphabetic, char::is_alphanumeric, char::is_digit(10)
IsAlphabetic(ch) == ch \in UpperLetters \cup LowerLetters
IsAlphanumeric(ch) == IsAlphabetic(ch) \/ ch \in Digits
IsDigit(ch) == ch \in Digits

\* The white space the tokenizer skips, and the white space trim_end removes.
Whitespace == {" ", "\n"}

\* str::to_uppercase
UpperChar(ch) ==
    IF ch \in LowerLetters THEN Ascii[Code[ch] - Code["a"] + Code["A"]] ELSE ch
ToUppercase(s) == [i \in 1..Len(s) |-> UpperChar(s[i])]

\* Ord for String: -1, 0 or 1 as a is less than, equal to or greater than b
\* in the lexicographic order of the bytes.
RECURSIVE StrCmp(_, _)
StrCmp(a, b) ==
    IF a = <<>> THEN (IF b = <<>> THEN 0 ELSE -1)
    ELSE IF b = <<>> THEN 1
    ELSE IF Code[Head(a)] < Code[Head(b)] THEN -1
    ELSE IF Code[Head(a)] > Code[Head(b)] THEN 1
    ELSE StrCmp(Tail(a), Tail(b))

\* The first position from i on whose character is not in S (Len + 1 if none).
RunEnd(s, i, S) ==
    LET stops == {j \in i..Len(s) : s[j] \notin S}
    IN  IF stops = {} THEN Len(s) + 1
        ELSE CHOOSE j \in stops : \A k \in stops : j <= k

\* str::split(sep): the fields between the separators, at least one.
RECURSIVE Split(_, _)
Split(s, sep) ==
    LET j == RunEnd(s, 1, Chars \ {sep})
    IN  IF j > Len(s) THEN <<s>>
        ELSE <<SubSeq(s, 1, j - 1)>> \o Split(SubSeq(s, j + 1, Len(s)), sep)

\* [String]::join(sep)
RECURSIVE Join(_, _)
Join(fields, sep) ==
    IF fields = <<>> THEN <<>>
    ELSE IF Len(fields) = 1 THEN fields[1]
    ELSE fields[1] \o <<sep>> \o Join(Tail(fields), sep)

\* str::trim_end
RECURSIVE TrimEnd(_)
TrimEnd(s) ==
    IF s # <<>> /\ s[Len(s)] \in Whitespace THEN TrimEnd(SubSeq(s, 1, Len(s) - 1))
    ELSE s

\* BufRead::lines: the text cut at each line feed, the line feeds dropped; a
\* last line without a line feed is a line too, an empty rest is not.
RECURSIVE Lines(_)
Lines(content) ==
    IF content = <<>> THEN <<>>
    ELSE LET j == RunEnd(content, 1, Chars \ {"\n"})
         IN  <<SubSeq(content, 1, j - 1)>>
             \o Lines(SubSeq(content, j + 1, Len(content)))

\* BufRead::read_line: the first line with its line feed, if it has one.
ReadLine(content) ==
    LET j == RunEnd(content, 1, Chars \ {"\n"})
    IN  SubSeq(content, 1, IF j > Len(content) THEN Len(content) ELSE j)

(***************************************************************************)
(* Tokens and the tokenizer (parser.rs)                                    *)
(***************************************************************************)

Tok(type, text) == [type |-> type, text |-> text]

KeywordSet ==
    { <<"S","E","L","E","C","T">>, <<"F","R","O","M">>, <<"W","H","E","R","E">>,
      <<"O","R","D","E","R">>, <<"B","Y">>, <<"A","S","C">>, <<"D","E","S","C">>,
      <<"I","N","S","E","R","T">>, <<"I","N","T","O">>,
      <<"V","A","L","U","E","S">>, <<"U","P","D","A","T","E">>, <<"S","E","T">>,
      <<"D","E","L","E","T","E">>, <<"A","N","D">>, <<"O","R">>, <<"N","O","T">> }

\* One pass over the characters from position i on; tokens is what has been
\* pushed so far.  The result is the token sequence ended by EOF, or the
\* InvalidSyntax error of an unexpected character.
RECURSIVE TokenizeFrom(_, _, _)
TokenizeFrom(input, i, tokens) ==
    IF i > Len(input)
    THEN [err |-> "none", tokens |-> Append(tokens, Tok("EOF", <<>>))]
    ELSE LET ch == input[i]
         IN CASE ch \in Whitespace -> TokenizeFrom(input, i + 1, tokens)
              [] ch = "," ->
                   TokenizeFrom(input, i + 1, Append(tokens, Tok("Comma", <<>>)))
              [] ch = ";" ->
                   TokenizeFrom(input, i + 1, Append(tokens, Tok("Semicolon", <<>>)))
              [] ch = "*" ->
                   TokenizeFrom(input, i + 1, Append(tokens, Tok("Asterisk", <<>>)))
              [] ch = "(" ->
                   TokenizeFrom(input, i + 1, Append(tokens, Tok("OpenParen", <<>>)))
              [] ch = ")" ->
                   TokenizeFrom(input, i + 1, Append(tokens, Tok("CloseParen", <<>>)))
              [] ch \in {"=", ">", "<"} ->
                   IF i + 1 <= Len(input) /\ input[i + 1] = "="
                   THEN TokenizeFrom(input, i + 2,
                                     Append(tokens, Tok("Operator", <<ch, "=">>)))
                   ELSE TokenizeFrom(input, i + 1,
                                     Append(tokens, Tok("Operator", <<ch>>)))
              [] ch = "'" ->
                   LET j == RunEnd(input, i + 1, Chars \ {"'"})
                   IN  TokenizeFrom(input, IF j <= Len(input) THEN j + 1 ELSE j,
                                    Append(tokens,
                                           Tok("Literal", SubSeq(input, i + 1, j - 1))))
              [] IsAlphabetic(ch) ->
                   LET j == RunEnd(input, i,
                                   UpperLetters \cup LowerLetters \cup Digits \cup {"_"})
                       ident == SubSeq(input, i, j - 1)
                       upper_ident == ToUppercase(ident)
                   IN  TokenizeFrom(input, j,
                                    Append(tokens,
                                           IF upper_ident \in KeywordSet
                                           THEN Tok("Keyword", upper_ident)
                                           ELSE Tok("Identifier", ident)))
              [] IsDigit(ch) ->
                   LET j == RunEnd(input, i, Digits)
                   IN  TokenizeFrom(input, j,
                                    Append(tokens,
                                           Tok("Literal", SubSeq(input, i, j - 1))))
              [] OTHER -> [err |-> "InvalidSyntax", tokens |-> <<>>]

tokenize(input) == TokenizeFrom(input, 1, <<>>)

(***************************************************************************)
(* The statement tree and the parser (parser.rs)                           *)
(***************************************************************************)

\* Option<T>: None is the empty sequence, Some(v) the sequence of v alone.
None == <<>>
Some(v) == <<v>>

\* Expression
BinaryOp(left, op, right) ==
    [type |-> "BinaryOp", left |-> left, op |-> op, right |-> right]
Literal(value) == [type |-> "Literal", text |-> value]
Column(name) == [type |-> "Column", text |-> name]

\* SQLQuery: one record shape for the four statements, the fields a statement
\* does not have left empty.
SelectQuery(columns, table, where_clause, order_by) ==
    [kind |-> "Select", table |-> table, columns |-> columns, values |-> <<>>,
     assignments |-> <<>>, where_clause |-> where_clause, order_by |-> order_by]
InsertQuery(table, columns, values) ==
    [kind |-> "Insert", table |-> table, columns |-> columns, values |-> values,
     assignments |-> <<>>, where_clause |-> None, order_by |-> None]
UpdateQuery(table, assignments, where_clause) ==
    [kind |-> "Update", table |-> table, columns |-> <<>>, values |-> <<>>,
     assignments |-> assignments, where_clause |-> where_clause, order_by |-> None]
DeleteQuery(table, where_clause) ==
    [kind |-> "Delete", table |-> table, columns |-> <<>>, values |-> <<>>,
     assignments |-> <<>>, where_clause |-> where_clause, order_by |-> None]
NoQuery ==
    [kind |-> "None", table |-> <<>>, columns |-> <<>>, values |-> <<>>,
     assignments |-> <<>>, where_clause |-> None, order_by |-> None]

Assignment(column, value) == [column |-> column, value |-> value]
OrderBy(column, ascending) == [column |-> column, ascending |-> ascending]

\* tokens.get(index), index counted from zero; a token of type "None" when
\* index is past the end.
TokenAt(tokens, index) ==
    IF index < Len(tokens) THEN tokens[index + 1] ELSE Tok("None", <<>>)

IsKeyword(tok, k) == tok.type = "Keyword" /\ tok.text = k

\* The result of a parsing function: the fragment and the cursor after it, or
\* the InvalidSyntax error.
ParseOk(index, val) == [err |-> "none", index |-> index, val |-> val]
ParseErr == [err |-> "InvalidSyntax", index |-> 0, val |-> <<>>]

\* A variant of ExpectEnd that also takes a keyword at the cursor for the end
\* of the statement.
ExpectEndOrKeyword(tokens, index, query) ==
    IF TokenAt(tokens, index).type \in {"Semicolon", "EOF", "Keyword"}
    THEN ParseOk(index, query)
    ELSE ParseErr

\* The common tail of the four statement parsers: a Semicolon or EOF at the
\* cursor, else InvalidSyntax.
ExpectEnd(tokens, index, query) ==
    IF TokenAt(tokens, index).type \in {"Semicolon", "EOF"}
    THEN ParseOk(index, query)
    ELSE ParseErr

parse_expression(tokens, index) ==
    LET t0 == TokenAt(tokens, index)
        t1 == TokenAt(tokens, index + 1)
        t2 == TokenAt(tokens, index + 2)
    IN  IF t0.type # "Identifier" THEN ParseErr
        ELSE IF t1.type # "Operator" THEN ParseErr
        ELSE IF t2.type # "Literal" THEN ParseErr
        ELSE ParseOk(index + 3,
                     BinaryOp(Column(t0.text), t1.text, Literal(t2.text)))

parse_order_by(tokens, index) ==
    LET t0 == TokenAt(tokens, index)
        t1 == TokenAt(tokens, index + 1)
    IN  IF t0.type # "Identifier" THEN ParseErr
        ELSE IF IsKeyword(t1, <<"A","S","C">>)
             THEN ParseOk(index + 2, OrderBy(t0.text, TRUE))
        ELSE IF IsKeyword(t1, <<"D","E","S","C">>)
             THEN ParseOk(index + 2, OrderBy(t0.text, FALSE))
        ELSE ParseOk(index + 1, OrderBy(t0.text, TRUE))

\* The optional WHERE clause of SELECT, UPDATE and DELETE: None when the
\* cursor is not at WHERE.
ParseOptionalWhere(tokens, index) ==
    IF IsKeyword(TokenAt(tokens, index), <<"W","H","E","R","E">>)
    THEN LET e == parse_expression(tokens, index + 1)
         IN  IF e.err # "none" THEN ParseErr ELSE ParseOk(e.index, Some(e.val))
    ELSE ParseOk(index, None)

RECURSIVE SelectListFrom(_, _, _)
SelectListFrom(tokens, index, columns) ==
    LET t0 == TokenAt(tokens, index)
        item == IF t0.type = "Asterisk" THEN <<"*">> ELSE t0.text
    IN  IF t0.type \notin {"Asterisk", "Identifier"} THEN ParseErr
        ELSE IF TokenAt(tokens, index + 1).type = "Comma"
             THEN SelectListFrom(tokens, index + 2, Append(columns, item))
        ELSE ParseOk(index + 1, Append(columns, item))

parse_select_list(tokens, index) == SelectListFrom(tokens, index, <<>>)

parse_select(tokens, index0) ==
    LET cols == parse_select_list(tokens, index0 + 1)
    IN  IF cols.err # "none" THEN ParseErr
        ELSE IF ~IsKeyword(TokenAt(tokens, cols.index), <<"F","R","O","M">>)
             THEN ParseErr
        ELSE IF TokenAt(tokens, cols.index + 1).type # "Identifier" THEN ParseErr
        ELSE
          LET table == TokenAt(tokens, cols.index + 1).text
              w == ParseOptionalWhere(tokens, cols.index + 2)
          IN  IF w.err # "none" THEN ParseErr
              ELSE IF IsKeyword(TokenAt(tokens, w.index), <<"O","R","D","E","R">>)
                   THEN IF ~IsKeyword(TokenAt(tokens, w.index + 1), <<"B","Y">>)
                        THEN ParseErr
                        ELSE LET o == parse_order_by(tokens, w.index + 2)
                             IN  IF o.err # "none" THEN ParseErr
                                 ELSE ExpectEnd(tokens, o.index,
                                        SelectQuery(cols.val, table, w.val, Some(o.val)))
              ELSE ExpectEnd(tokens, w.index,
                             SelectQuery(cols.val, table, w.val, None))

RECURSIVE ColumnListFrom(_, _, _)
ColumnListFrom(tokens, index, columns) ==
    LET t0 == TokenAt(tokens, index)
        t1 == TokenAt(tokens, index + 1)
    IN  IF t0.type # "Identifier" THEN ParseErr
        ELSE IF t1.type = "Comma"
             THEN ColumnListFrom(tokens, index + 2, Append(columns, t0.text))
        ELSE IF t1.type = "CloseParen"
             THEN ParseOk(index + 1, Append(columns, t0.text))
        ELSE ParseErr

parse_column_list(tokens, index) == ColumnListFrom(tokens, index, <<>>)

RECURSIVE ValuesListFrom(_, _, _)
ValuesListFrom(tokens, index, values) ==
    LET t0 == TokenAt(tokens, index)
        t1 == TokenAt(tokens, index + 1)
    IN  IF t0.type # "Literal" THEN ParseErr
        ELSE IF t1.type = "Comma"
             THEN ValuesListFrom(tokens, index + 2, Append(values, t0.text))
        ELSE IF t1.type = "CloseParen"
             THEN ParseOk(index + 1, Append(values, t0.text))
        ELSE ParseErr

parse_values_list(tokens, index) == ValuesListFrom(tokens, index, <<>>)

parse_insert(tokens, index0) ==
    IF ~IsKeyword(TokenAt(tokens, index0 + 1), <<"I","N","T","O">>) THEN ParseErr
    ELSE IF TokenAt(tokens, index0 + 2).type # "Identifier" THEN ParseErr
    ELSE
      LET table == TokenAt(tokens, index0 + 2).text
          cols == IF TokenAt(tokens, index0 + 3).type = "OpenParen"
                  THEN LET c == parse_column_list(tokens, index0 + 4)
                       IN  IF c.err # "none" THEN ParseErr
                           ELSE IF TokenAt(tokens, c.index).type # "CloseParen"
                                THEN ParseErr
                           ELSE ParseOk(c.index + 1, c.val)
                  ELSE ParseOk(index0 + 3, <<>>)
      IN  IF cols.err # "none" THEN ParseErr
          ELSE IF ~IsKeyword(TokenAt(tokens, cols.index), <<"V","A","L","U","E","S">>)
               THEN ParseErr
          ELSE IF TokenAt(tokens, cols.index + 1).type # "OpenParen" THEN ParseErr
          ELSE LET vals == parse_values_list(tokens, cols.index + 2)
               IN  IF vals.err # "none" THEN ParseErr
                   ELSE IF TokenAt(tokens, vals.index).type # "CloseParen"
                        THEN ParseErr
                   ELSE ExpectEnd(tokens, vals.index + 1,
                                  InsertQuery(table, cols.val, vals.val))

RECURSIVE AssignmentsFrom(_, _, _)
AssignmentsFrom(tokens, index, assignments) ==
    LET t0 == TokenAt(tokens, index)
        t1 == TokenAt(tokens, index + 1)
        t2 == TokenAt(tokens, index + 2)
        next == Append(assignments, Assignment(t0.text, t2.text))
    IN  IF t0.type # "Identifier" THEN ParseErr
        ELSE IF ~(t1.type = "Operator" /\ t1.text = <<"=">>) THEN ParseErr
        ELSE IF t2.type # "Literal" THEN ParseErr
        ELSE IF TokenAt(tokens, index + 3).type = "Comma"
             THEN AssignmentsFrom(tokens, index + 4, next)
        ELSE ParseOk(index + 3, next)

parse_assignments(tokens, index) == AssignmentsFrom(tokens, index, <<>>)

parse_update(tokens, index0) ==
    IF TokenAt(tokens, index0 + 1).type # "Identifier" THEN ParseErr
    ELSE IF ~IsKeyword(TokenAt(tokens, index0 + 2), <<"S","E","T">>) THEN ParseErr
    ELSE
      LET table == TokenAt(tokens, index0 + 1).text
          a == parse_assignments(tokens, index0 + 3)
      IN  IF a.err # "none" THEN ParseErr
          ELSE LET w == ParseOptionalWhere(tokens, a.index)
               IN  IF w.err # "none" THEN ParseErr
                   ELSE ExpectEnd(tokens, w.index, UpdateQuery(table, a.val, w.val))

parse_delete(tokens, index0) ==
    IF ~IsKeyword(TokenAt(tokens, index0 + 1), <<"F","R","O","M">>) THEN ParseErr
    ELSE IF TokenAt(tokens, index0 + 2).type # "Identifier" THEN ParseErr
    ELSE
      LET table == TokenAt(tokens, index0 + 2).text
          w == ParseOptionalWhere(tokens, index0 + 3)
      IN  IF w.err # "none" THEN ParseErr
          ELSE ExpectEnd(tokens, w.index, DeleteQuery(table, w.val))

\* parse: dispatch on the first token.
parse(tokens) ==
    LET t0 == TokenAt(tokens, 0)
    IN  IF IsKeyword(t0, <<"S","E","L","E","C","T">>) THEN parse_select(tokens, 0)
        ELSE IF IsKeyword(t0, <<"I","N","S","E","R","T">>) THEN parse_insert(tokens, 0)
        ELSE IF IsKeyword(t0, <<"U","P","D","A","T","E">>) THEN parse_update(tokens, 0)
        ELSE IF IsKeyword(t0, <<"D","E","L","E","T","E">>) THEN parse_delete(tokens, 0)
        ELSE ParseErr

(***************************************************************************)
(* The table store (data.rs) and the pure parts of the executor            *)
(* (executor.rs)                                                           *)
(***************************************************************************)

\* The greatest element of a non-empty set of numbers.
Max(S) == CHOOSE m \in S : \A n \in S : n <= m

\* The elements of a set of numbers in ascending order (Vec::sort).
RECURSIVE SortedSeq(_)
SortedSeq(S) ==
    IF S = {} THEN <<>>
    ELSE LET m == Max(S) IN Append(SortedSeq(S \ {m}), m)

\* read_table_schema: the first line without its trailing white space, split
\* at the commas, each name mapped to its zero-based ordinal.  Collected into
\* a HashMap, a name written twice keeps its last ordinal.
read_table_schema(content) ==
    LET header == Split(TrimEnd(ReadLine(content)), ",")
        names == {header[i] : i \in 1..Len(header)}
    IN  [n \in names |-> Max({i - 1 : i \in {k \in 1..Len(header) : header[k] = n}})]

\* The result of a step that can end with an SQLError or a panic: status is
\* "ok", the error's kind, or "panic" (an index out of bounds).
Res(status, val) == [status |-> status, val |-> val]

\* A variant of get_selected_indices that gives the ordinals of a column list
\* in ascending order, as it does for *.
GetSelectedIndicesSorted(select_query, schema_columns) ==
    IF Len(select_query.columns) = 1 /\ select_query.columns[1] = <<"*">>
    THEN Res("ok", SortedSeq({schema_columns[n] : n \in DOMAIN schema_columns}))
    ELSE IF \E i \in 1..Len(select_query.columns) :
                select_query.columns[i] \notin DOMAIN schema_columns
         THEN Res("InvalidColumn", <<>>)
    ELSE Res("ok", SortedSeq({schema_columns[select_query.columns[i]] :
                                 i \in 1..Len(select_query.columns)}))

\* get_selected_indices
get_selected_indices(select_query, schema_columns) ==
    IF Len(select_query.columns) = 1 /\ select_query.columns[1] = <<"*">>
    THEN Res("ok", SortedSeq({schema_columns[n] : n \in DOMAIN schema_columns}))
    ELSE IF \E i \in 1..Len(select_query.columns) :
                select_query.columns[i] \notin DOMAIN schema_columns
         THEN Res("InvalidColumn", <<>>)
    ELSE Res("ok", [i \in 1..Len(select_query.columns) |->
                        schema_columns[select_query.columns[i]]])

\* get_value
get_value(expr, schema_columns, row_values) ==
    IF expr.type = "Literal" THEN Res("ok", expr.text)
    ELSE IF expr.type = "Column"
         THEN IF expr.text \in DOMAIN schema_columns
              THEN IF schema_columns[expr.text] < Len(row_values)
                   THEN Res("ok", row_values[schema_columns[expr.text] + 1])
                   ELSE Res("panic", <<>>)
              ELSE Res("InvalidColumn", <<>>)
    ELSE Res("InvalidSyntax", <<>>)

\* The comparison evaluate_where_clause makes for an operator it knows.
Compare(op, left_value, right_value) ==
    CASE op = <<"=">> -> left_value = right_value
      [] op = <<"<">> -> StrCmp(left_value, right_value) < 0
      [] op = <<">">> -> StrCmp(left_value, right_value) > 0
      [] op = <<"<", "=">> -> StrCmp(left_value, right_value) <= 0
      [] op = <<">", "=">> -> StrCmp(left_value, right_value) >= 0
      [] op = <<"<", ">">> -> left_value # right_value

KnownOperators ==
    { <<"=">>, <<"<">>, <<">">>, <<"<", "=">>, <<">", "=">>, <<"<", ">">> }

\* A variant of evaluate_where_clause that takes an expression that is no
\* BinaryOp for true.
EvaluateOrTrue(expr, schema_columns, row_values) ==
    IF expr.type = "BinaryOp"
    THEN LET left_value == get_value(expr.left, schema_columns, row_values)
             right_value == get_value(expr.right, schema_columns, row_values)
         IN  IF left_value.status # "ok" THEN Res(left_value.status, FALSE)
             ELSE IF right_value.status # "ok" THEN Res(right_value.status, FALSE)
             ELSE IF expr.op \in KnownOperators
                  THEN Res("ok", Compare(expr.op, left_value.val, right_value.val))
             ELSE Res("InvalidSyntax", FALSE)
    ELSE Res("ok", TRUE)

\* evaluate_where_clause
evaluate_where_clause(expr, schema_columns, row_values) ==
    IF expr.type = "BinaryOp"
    THEN LET left_value == get_value(expr.left, schema_columns, row_values)
             right_value == get_value(expr.right, schema_columns, row_values)
         IN  IF left_value.status # "ok" THEN Res(left_value.status, FALSE)
             ELSE IF right_value.status # "ok" THEN Res(right_value.status, FALSE)
             ELSE IF expr.op \in KnownOperators
                  THEN Res("ok", Compare(expr.op, left_value.val, right_value.val))
             ELSE Res("InvalidSyntax", FALSE)
    ELSE Res("InvalidSyntax", FALSE)

\* The filter a statement applies to a row: the value without a WHERE clause,
\* else the WHERE clause evaluated on the row.
WhereOr(default, where_clause, schema_columns, row_values) ==
    IF where_clause = None THEN Res("ok", default)
    ELSE evaluate_where_clause(where_clause[1], schema_columns, row_values)

\* The loop of process_rows over the data lines: each line split at the
\* commas, filtered, projected to the selected ordinals and pushed.
RECURSIVE ProcessLines(_, _, _, _, _)
ProcessLines(data_lines, schema_columns, select_query, selected_indices, results) ==
    IF data_lines = <<>> THEN Res("ok", results)
    ELSE LET row_values == Split(Head(data_lines), ",")
             include_row == WhereOr(TRUE, select_query.where_clause,
                                    schema_columns, row_values)
         IN  IF include_row.status # "ok" THEN Res(include_row.status, <<>>)
             ELSE IF ~include_row.val
                  THEN ProcessLines(Tail(data_lines), schema_columns, select_query,
                                    selected_indices, results)
             ELSE IF \E i \in 1..Len(selected_indices) :
                         selected_indices[i] >= Len(row_values)
                  THEN Res("panic", <<>>)
             ELSE ProcessLines(Tail(data_lines), schema_columns, select_query,
                               selected_indices,
                               Append(results,
                                      [i \in 1..Len(selected_indices) |->
                                           row_values[selected_indices[i] + 1]]))

\* A variant of GoesBefore that also puts a before a b it ties with.
GoesBeforeOrTies(a, b, ascending) ==
    IF ascending THEN StrCmp(a, b) <= 0 ELSE StrCmp(b, a) <= 0

\* The comparator of sort_results says that a goes before b.
GoesBefore(a, b, ascending) ==
    IF ascending THEN StrCmp(a, b) < 0 ELSE StrCmp(b, a) < 0

\* slice::sort_by: a stable sort; each row is placed before the first row it
\* goes before, after every row it ties with.
RECURSIVE SortBy(_, _, _)
SortBy(results, pos, ascending) ==
    IF results = <<>> THEN <<>>
    ELSE LET sorted == SortBy(SubSeq(results, 1, Len(results) - 1), pos, ascending)
             x == results[Len(results)]
             later == {i \in 1..Len(sorted) :
                          GoesBefore(x[pos], sorted[i][pos], ascending)}
             at == IF later = {} THEN Len(sorted) + 1
                   ELSE CHOOSE i \in later : \A k \in later : i <= k
         IN  SubSeq(sorted, 1, at - 1) \o <<x>> \o SubSeq(sorted, at, Len(sorted))

\* sort_results
sort_results(results, selected_indices, schema_columns, order_by) ==
    IF order_by.column \notin DOMAIN schema_columns THEN Res("InvalidColumn", <<>>)
    ELSE LET order_idx == schema_columns[order_by.column]
             found == {i \in 1..Len(selected_indices) : selected_indices[i] = order_idx}
         IN  IF found = {} THEN Res("InvalidColumn", <<>>)
             ELSE Res("ok", SortBy(results,
                                   CHOOSE i \in found : \A k \in found : i <= k,
                                   order_by.ascending))

\* output_results: the printed lines, the header of the selected names first.
output_results(selected_indices, schema_columns, results) ==
    LET headers == [i \in 1..Len(selected_indices) |->
                       CHOOSE n \in DOMAIN schema_columns :
                           schema_columns[n] = selected_indices[i]]
    IN  <<Join(headers, ",")>> \o [i \in 1..Len(results) |-> Join(results[i], ",")]

\* process_rows on the lines the reader yields (the header line first): the
\* status and the printed lines.
process_rows(file_lines, schema_columns, select_query, selected_indices) ==
    LET data_lines == IF file_lines = <<>> THEN <<>> ELSE Tail(file_lines)
        scanned == ProcessLines(data_lines, schema_columns, select_query,
                                selected_indices, <<>>)
        sorted == IF select_query.order_by = None THEN scanned
                  ELSE sort_results(scanned.val, selected_indices, schema_columns,
                                    select_query.order_by[1])
    IN  IF scanned.status # "ok" THEN Res(scanned.status, <<>>)
        ELSE IF sorted.status # "ok" THEN Res(sorted.status, <<>>)
        ELSE Res("ok", output_results(selected_indices, schema_columns, sorted.val))

\* The columns execute_insert fills: the statement's list, or every column of
\* the schema in ordinal order when the list is empty.
ColumnsToInsert(insert_query, schema_columns) ==
    IF insert_query.columns = <<>>
    THEN LET ordinals == SortedSeq({schema_columns[n] : n \in DOMAIN schema_columns})
         IN  [i \in 1..Len(ordinals) |->
                 CHOOSE n \in DOMAIN schema_columns : schema_columns[n] = ordinals[i]]
    ELSE insert_query.columns

\* A variant of FillRow that puts the values in the order of the column list,
\* from the first field on.
FillRowInListOrder(new_row, columns, values, schema_columns) ==
    Res("ok", [k \in 1..Len(new_row) |->
                  IF k <= Len(columns) /\ k <= Len(values) THEN values[k]
                  ELSE new_row[k]])

\* The loop of execute_insert that fills new_row from the zipped columns and
\* values, in order.
RECURSIVE FillRow(_, _, _, _)
FillRow(new_row, columns, values, schema_columns) ==
    IF columns = <<>> \/ values = <<>> THEN Res("ok", new_row)
    ELSE LET idx == schema_columns[Head(columns)]
         IN  IF idx >= Len(new_row) THEN Res("panic", <<>>)
             ELSE FillRow([new_row EXCEPT ![idx + 1] = Head(values)],
                          Tail(columns), Tail(values), schema_columns)

\* A variant of InsertLine that compares the counts before it looks the
\* columns up.
InsertLineCountFirst(insert_query, schema_columns) ==
    LET columns_to_insert == ColumnsToInsert(insert_query, schema_columns)
    IN  IF Len(columns_to_insert) # Len(insert_query.values)
        THEN Res("InvalidSyntax", <<>>)
        ELSE IF \E i \in 1..Len(columns_to_insert) :
                    columns_to_insert[i] \notin DOMAIN schema_columns
             THEN Res("InvalidColumn", <<>>)
        ELSE LET num_columns == Cardinality(DOMAIN schema_columns)
                 new_row == FillRow([i \in 1..num_columns |-> <<>>],
                                    columns_to_insert, insert_query.values,
                                    schema_columns)
             IN  IF new_row.status # "ok" THEN Res(new_row.status, <<>>)
                 ELSE Res("ok", Join(new_row.val, ",") \o <<"\n">>)

\* The validation and the row of execute_insert: the status and the line to
\* append.
InsertLine(insert_query, schema_columns) ==
    LET columns_to_insert == ColumnsToInsert(insert_query, schema_columns)
        num_columns == Cardinality(DOMAIN schema_columns)
        new_row == FillRow([i \in 1..num_columns |-> <<>>], columns_to_insert,
                           insert_query.values, schema_columns)
    IN  IF \E i \in 1..Len(columns_to_insert) :
               columns_to_insert[i] \notin DOMAIN schema_columns
        THEN Res("InvalidColumn", <<>>)
        ELSE IF Len(columns_to_insert) # Len(insert_query.values)
             THEN Res("InvalidSyntax", <<>>)
        ELSE IF new_row.status # "ok" THEN Res(new_row.status, <<>>)
        ELSE Res("ok", Join(new_row.val, ",") \o <<"\n">>)

\* A variant of ApplyAssignments that applies the first assignment only.
ApplyFirstAssignment(row_values, assignments, schema_columns) ==
    IF assignments = <<>> THEN Res("ok", row_values)
    ELSE LET idx == schema_columns[Head(assignments).column]
         IN  IF idx >= Len(row_values) THEN Res("panic", <<>>)
             ELSE Res("ok", [row_values EXCEPT ![idx + 1] = Head(assignments).value])

\* The loop of execute_update that applies the assignments to a row, in order.
RECURSIVE ApplyAssignments(_, _, _)
ApplyAssignments(row_values, assignments, schema_columns) ==
    IF assignments = <<>> THEN Res("ok", row_values)
    ELSE LET idx == schema_columns[Head(assignments).column]
         IN  IF idx >= Len(row_values) THEN Res("panic", <<>>)
             ELSE ApplyAssignments(
                      [row_values EXCEPT ![idx + 1] = Head(assignments).value],
                      Tail(assignments), schema_columns)

\* A variant of UpdateDefault: a row is left alone unless a WHERE clause
\* selects it.
UpdateDefaultFalse == FALSE

\* should_update of execute_update before the WHERE clause is looked at.
UpdateDefault == TRUE

\* A variant of UpdatedLine that writes the row without its line feed.
UpdatedLineUnterminated(line, update_query, schema_columns) ==
    LET row_values == Split(line, ",")
        should_update == WhereOr(UpdateDefault, update_query.where_clause,
                                 schema_columns, row_values)
        updated == IF should_update.val
                   THEN ApplyAssignments(row_values, update_query.assignments,
                                         schema_columns)
                   ELSE Res("ok", row_values)
    IN  IF should_update.status # "ok" THEN Res(should_update.status, <<>>)
        ELSE IF updated.status # "ok" THEN Res(updated.status, <<>>)
        ELSE Res("ok", Join(updated.val, ","))

\* The body of execute_update's loop for one line: the status and the line
\* written to the temporary file.
UpdatedLine(line, update_query, schema_columns) ==
    LET row_values == Split(line, ",")
        should_update == WhereOr(UpdateDefault, update_query.where_clause,
                                 schema_columns, row_values)
        updated == IF should_update.val
                   THEN ApplyAssignments(row_values, update_query.assignments,
                                         schema_columns)
                   ELSE Res("ok", row_values)
    IN  IF should_update.status # "ok" THEN Res(should_update.status, <<>>)
        ELSE IF updated.status # "ok" THEN Res(updated.status, <<>>)
        ELSE Res("ok", Join(updated.val, ",") \o <<"\n">>)

\* A variant of DeleteDefault: a row is deleted unless a WHERE clause keeps it.
DeleteDefaultTrue == TRUE

\* should_delete of execute_delete before the WHERE clause is looked at.
DeleteDefault == FALSE

\* The body of execute_delete's loop for one line: the status and the text
\* written to the temporary file (nothing for a deleted row).
KeptLine(line, delete_query, schema_columns) ==
    LET row_values == Split(line, ",")
        should_delete == WhereOr(DeleteDefault, delete_query.where_clause,
                                 schema_columns, row_values)
    IN  IF should_delete.status # "ok" THEN Res(should_delete.status, <<>>)
        ELSE IF should_delete.val THEN Res("ok", <<>>)
        ELSE Res("ok", Join(row_values, ",") \o <<"\n">>)

\* The capacity of the BufWriter's buffer, in characters.
BufCapacity == 8

\* BufWriter::write_all: data is kept in the buffer while it fits; a buffer
\* it does not fit in is written out first, and data no smaller than the
\* buffer is written through.  diskOk says whether a write to the file
\* succeeds; out is what reaches the file.
BufWriteAll(buf, data, diskOk) ==
    IF Len(data) < BufCapacity - Len(buf)
    THEN [buf |-> buf \o data, out |-> <<>>, err |-> FALSE]
    ELSE LET flush == Len(data) > BufCapacity - Len(buf) /\ buf # <<>>
             buf1 == IF flush THEN <<>> ELSE buf
             out1 == IF flush THEN buf ELSE <<>>
         IN  IF flush /\ ~diskOk THEN [buf |-> buf, out |-> <<>>, err |-> TRUE]
             ELSE IF Len(data) >= BufCapacity
                  THEN IF diskOk
                       THEN [buf |-> buf1, out |-> out1 \o data, err |-> FALSE]
                       ELSE [buf |-> buf1, out |-> out1, err |-> TRUE]
             ELSE [buf |-> buf1 \o data, out |-> out1, err |-> FALSE]

\* The two write_all calls that copy the header line and its line feed.
BufWriteHeader(buf, header_line, diskOk) ==
    LET first == BufWriteAll(buf, header_line, diskOk)
        second == BufWriteAll(first.buf, <<"\n">>, diskOk)
    IN  IF first.err THEN first
        ELSE [buf |-> second.buf, out |-> first.out \o second.out, err |-> second.err]

(***************************************************************************)
(* The statements and the table files a run may be given                   *)
(***************************************************************************)

\* The most data rows of a table file at the start of a run.
MaxRows == 3

\* The table the directory holds; its file is <tables_path>/t.csv.
TableName == <<"t">>

Sp == <<" ">>
Quoted(text) == <<"'">> \o text \o <<"'">>

\* Each line followed by a line feed.
RECURSIVE Unlines(_)
Unlines(ls) ==
    IF ls = <<>> THEN <<>> ELSE Head(ls) \o <<"\n">> \o Unlines(Tail(ls))

\* The header line of the table: two columns, x and y.
HeaderText == <<"x",",","y">>

\* Data rows of the header's width.
RowTexts ==
    { <<"a",",","a">>, <<"a",",","b">>, <<"b",",","a">>, <<"b",",","b">> }

\* The table files in the format the program documents: the header line and
\* up to MaxRows data rows of the header's width, every line ended by a line
\* feed.
TableFiles ==
    {Unlines(<<HeaderText>> \o rows) :
        rows \in UNION {[1..n -> RowTexts] : n \in 0..MaxRows}}

OperatorTexts ==
    { <<"=">>, <<"<">>, <<">">>, <<"<","=">>, <<">","=">>, <<"<",">">>, <<"=","=">> }

WhereText(column, op, literal) ==
    Sp \o <<"W","H","E","R","E">> \o Sp \o column \o Sp \o op \o Sp \o Quoted(literal)

WhereTexts ==
    {WhereText(<<"x">>, op, lit) : op \in OperatorTexts, lit \in {<<"a">>, <<"b">>}}
    \cup {WhereText(<<"z">>, <<"=">>, <<"a">>), WhereText(<<"y">>, <<">","=">>, <<"b">>)}

FewWhereTexts ==
    {WhereText(<<"x">>, op, <<"a">>) : op \in {<<"=">>, <<">">>, <<"<",">">>, <<"=","=">>}}
    \cup {WhereText(<<"z">>, <<"=">>, <<"a">>), WhereText(<<"y">>, <<"<">>, <<"b">>)}

SelectLists ==
    { <<"*">>, <<"x">>, <<"y">>, <<"x",",","y">>, <<"y",","," ","x">>, <<"z">> }

OrderByText(column, direction) ==
    Sp \o <<"O","R","D","E","R">> \o Sp \o <<"B","Y">> \o Sp \o column \o direction

OrderTexts ==
    { <<>>, OrderByText(<<"x">>, <<>>), OrderByText(<<"x">>, <<" ","D","E","S","C">>),
      OrderByText(<<"y">>, <<" ","A","S","C">>), OrderByText(<<"z">>, <<>>) }

SelectText(list, table, rest) ==
    <<"S","E","L","E","C","T">> \o Sp \o list \o Sp \o <<"F","R","O","M">> \o Sp
    \o table \o rest

SelectInputs ==
    {SelectText(list, TableName, o) : list \in SelectLists, o \in OrderTexts}
    \cup {SelectText(list, TableName, w \o o) :
            list \in {<<"*">>, <<"y",","," ","x">>}, w \in WhereTexts,
            o \in {<<>>, OrderByText(<<"x">>, <<" ","D","E","S","C">>)}}

AssignmentTexts ==
    { <<"x","=">> \o Quoted(<<"b">>),
      <<"y","=">> \o Quoted(<<>>),
      <<"x","=">> \o Quoted(<<"a">>) \o <<",","y","=">> \o Quoted(<<"b">>),
      <<"x","=">> \o Quoted(<<"a">>) \o <<",","x","=">> \o Quoted(<<"b">>),
      <<"z","=">> \o Quoted(<<"a">>) }

UpdateInputs ==
    {<<"U","P","D","A","T","E">> \o Sp \o TableName \o Sp \o <<"S","E","T">> \o Sp
        \o a \o w : a \in AssignmentTexts, w \in {<<>>} \cup FewWhereTexts}

DeleteText(table, rest) ==
    <<"D","E","L","E","T","E">> \o Sp \o <<"F","R","O","M">> \o Sp \o table \o rest

DeleteInputs == {DeleteText(TableName, w) : w \in {<<>>} \cup WhereTexts}

ColumnListTexts ==
    { <<>>, <<"(","x",")">>, <<"(","y",")">>, <<"(","x",",","y",")">>,
      <<"(","y",",","x",")">>, <<"(","z",")">>, <<"(","x",",","x",")">> }

ValueListTexts ==
    { Quoted(<<"b">>),
      Quoted(<<"b">>) \o <<",">> \o Quoted(<<"a">>),
      <<"1","0",",">> \o Quoted(<<>>),
      Quoted(<<"a">>) \o <<",">> \o Quoted(<<"b">>) \o <<",">> \o Quoted(<<"a">>) }

InsertInputs ==
    {<<"I","N","S","E","R","T">> \o Sp \o <<"I","N","T","O">> \o Sp \o TableName
        \o Sp \o cl \o Sp \o <<"V","A","L","U","E","S">> \o Sp
        \o <<"(">> \o vl \o <<")">> : cl \in ColumnListTexts, vl \in ValueListTexts}

\* Statements of other shapes: lower-case keywords and a semicolon, a table
\* the directory does not hold, a second predicate, a character the tokenizer
\* rejects, no statement keyword.
OtherInputs ==
    { <<"s","e","l","e","c","t"," ","*"," ","f","r","o","m"," ","t",";">>,
      SelectText(<<"*">>, <<"u">>, <<>>),
      SelectText(<<"*">>, TableName,
                 WhereText(<<"x">>, <<"=">>, <<"a">>) \o Sp \o <<"A","N","D">> \o Sp
                 \o <<"y","=">> \o Quoted(<<"b">>)),
      SelectText(<<"!">>, TableName, <<>>),
      <<"x">> }

UpdateText(table, assignments, rest) ==
    <<"U","P","D","A","T","E">> \o Sp \o table \o Sp \o <<"S","E","T">> \o Sp
    \o assignments \o rest

\* The keywords that join predicates, as they may be written.
ConnectiveTexts == { <<"A","N","D">>, <<"O","R">>, <<"a","n","d">> }

\* A WHERE clause that goes on with a connective and a second predicate.
SecondPredicate(connective) ==
    WhereText(<<"x">>, <<"=">>, <<"a">>) \o Sp \o connective \o Sp
    \o <<"y"," ","<"," ">> \o Quoted(<<"b">>)

\* SELECT, UPDATE and DELETE statements with two predicates.
ConnectiveInputs ==
    UNION {{ SelectText(<<"*">>, TableName, SecondPredicate(k)),
             UpdateText(TableName, <<"x","=">> \o Quoted(<<"b">>), SecondPredicate(k)),
             DeleteText(TableName, SecondPredicate(k)) } : k \in ConnectiveTexts}

\* Statements with a semicolon: at the end, and with more text after it.
SemicolonInputs ==
    { DeleteText(TableName, <<";">>),
      SelectText(<<"*">>, TableName, <<";"," ","x">>),
      SelectText(<<"x">>, TableName, OrderByText(<<"x">>, <<>>) \o <<";",";">>),
      DeleteText(TableName, <<";">> \o WhereText(<<"x">>, <<"=">>, <<"a">>)),
      UpdateText(TableName, <<"x","=">> \o Quoted(<<"b">>),
                 <<";">> \o WhereText(<<"y">>, <<"=">>, <<"a">>)),
      <<"I","N","S","E","R","T">> \o Sp \o <<"I","N","T","O">> \o Sp \o TableName
          \o Sp \o <<"V","A","L","U","E","S">> \o Sp \o <<"(">> \o Quoted(<<"b">>)
          \o <<",">> \o Quoted(<<"a">>) \o <<")",";"," ","(">> }

\* The statement texts a run may be given.
Inputs == SelectInputs \cup UpdateInputs \cup DeleteInputs \cup InsertInputs
          \cup OtherInputs \cup ConnectiveInputs \cup SemicolonInputs

(***************************************************************************)
(* One run of the program                                                  *)
(***************************************************************************)

VARIABLES
    file,      \* the text of the table file <tables_path>/t.csv
    tmp,       \* the temporary file <tables_path>/t.tmp: None, or Some(text)
    input,     \* the statement text given to the run
    tokens,    \* the token sequence
    query,     \* the statement tree
    pc,        \* where the run is
    schema,    \* TableSchema.columns: column name -> ordinal
    lines,     \* the lines the reader of the table file has yet to yield
    wbuf,      \* the text in the BufWriter's buffer, not yet in its file
    outcome,   \* "none" while running; "Ok", the error's kind, or "panic"
    output,    \* the lines output_results has printed
    file0,     \* the text of the table file when the run began
    ioFault    \* whether an operation on a file has failed in this run

vars == <<file, tmp, input, tokens, query, pc, schema, lines, wbuf, outcome,
          output, file0, ioFault>>

Init ==
    /\ file \in TableFiles
    /\ file0 = file
    /\ tmp = None
    /\ input = <<>>
    /\ tokens = <<>>
    /\ query = NoQuery
    /\ pc = "main"
    /\ schema = <<>>
    /\ lines = <<>>
    /\ wbuf = <<>>
    /\ outcome = "none"
    /\ output = <<>>
    /\ ioFault = FALSE

\* The run ends: Ok(()), an SQLError that main prints before it exits, or a
\* panic.
Exit(result) ==
    /\ pc' = "exit"
    /\ outcome' = result

\* main: the statement text is tokenized.
Tokenize ==
    /\ pc = "main"
    /\ \E text \in Inputs :
         LET t == tokenize(text)
         IN  /\ input' = text
             /\ tokens' = t.tokens
             /\ IF t.err = "none"
                THEN pc' = "parse" /\ outcome' = outcome
                ELSE Exit(t.err)
    /\ UNCHANGED <<file, tmp, query, schema, lines, wbuf, output, file0, ioFault>>

\* A variant of Parse that goes on to execute_query when parse has failed.
ParseIgnoresError ==
    /\ pc = "parse"
    /\ LET q == parse(tokens)
       IN  /\ query' = IF q.err = "none" THEN q.val ELSE query
           /\ pc' = "execute"
           /\ outcome' = outcome
    /\ UNCHANGED <<file, tmp, input, tokens, schema, lines, wbuf, output, file0,
                   ioFault>>

\* main: the tokens are parsed.
Parse ==
    /\ pc = "parse"
    /\ LET q == parse(tokens)
       IN  IF q.err = "none"
           THEN query' = q.val /\ pc' = "execute" /\ outcome' = outcome
           ELSE query' = query /\ Exit(q.err)
    /\ UNCHANGED <<file, tmp, input, tokens, schema, lines, wbuf, output, file0,
                   ioFault>>

\* execute_query and the first step of each of the four statements: the
\* schema is read from the table file.  The file of a table the directory
\* does not hold cannot be opened; opening or reading the file may fail.
ReadTableSchema ==
    /\ pc = "execute"
    /\ \E ok \in BOOLEAN :
         IF query.table # TableName \/ ~ok
         THEN /\ Exit("InvalidTable")
              /\ schema' = schema
              /\ ioFault' = (query.table = TableName)
         ELSE /\ schema' = read_table_schema(file)
              /\ pc' = CASE query.kind = "Select" -> "select"
                         [] query.kind = "Insert" -> "insert"
                         [] query.kind = "Update" -> "update"
                         [] query.kind = "Delete" -> "delete"
              /\ UNCHANGED <<outcome, ioFault>>
    /\ UNCHANGED <<file, tmp, input, tokens, query, lines, wbuf, output, file0>>

\* execute_select after the schema is read: the selected ordinals, the file
\* opened, the rows processed and the result printed.  The reader yields the
\* first nread lines; fewer than the file holds when reading fails.
ExecuteSelect ==
    /\ pc = "select"
    /\ LET selected_indices == get_selected_indices(query, schema)
       IN  IF selected_indices.status # "ok"
           THEN Exit(selected_indices.status) /\ UNCHANGED <<output, ioFault>>
           ELSE \E openOk \in BOOLEAN, nread \in 0..Len(Lines(file)) :
                  IF ~openOk
                  THEN Exit("InvalidTable") /\ ioFault' = TRUE /\ output' = output
                  ELSE LET yielded == SubSeq(Lines(file), 1, nread)
                           r == process_rows(yielded, schema, query,
                                             selected_indices.val)
                       IN  /\ ioFault' = (nread < Len(Lines(file)))
                           /\ IF r.status = "ok"
                              THEN Exit("Ok") /\ output' = r.val
                              ELSE Exit(r.status) /\ output' = output
    /\ UNCHANGED <<file, tmp, input, tokens, query, schema, lines, wbuf, file0>>

\* execute_insert after the schema is read: the columns and the value count
\* validated, the row built, the file opened for appending and the line
\* written.
ExecuteInsert ==
    /\ pc = "insert"
    /\ LET row_line == InsertLine(query, schema)
       IN  IF row_line.status # "ok"
           THEN Exit(row_line.status) /\ UNCHANGED <<file, ioFault>>
           ELSE \E fault \in {"none", "open", "write"} :
                  CASE fault = "open" ->
                         Exit("InvalidTable") /\ ioFault' = TRUE /\ file' = file
                    [] fault = "write" ->
                         Exit("GenericError") /\ ioFault' = TRUE /\ file' = file
                    [] fault = "none" ->
                         Exit("Ok") /\ file' = file \o row_line.val
                         /\ ioFault' = ioFault
    /\ UNCHANGED <<tmp, input, tokens, query, schema, lines, wbuf, output, file0>>

\* The BufWriter is dropped with the temporary file still under its own name:
\* what the buffer holds is written to the temporary file.
DropWriter ==
    /\ tmp' = IF tmp = None THEN None ELSE Some(tmp[1] \o wbuf)
    /\ wbuf' = <<>>

\* execute_update and execute_delete: the table file is opened for reading
\* and the temporary file is created, emptied if it exists.
OpenFiles(next) ==
    \E fault \in {"none", "open", "create"} :
      CASE fault = "open" ->
             /\ Exit("InvalidTable") /\ ioFault' = TRUE
             /\ UNCHANGED <<tmp, lines, wbuf>>
        [] fault = "create" ->
             /\ Exit("GenericError") /\ ioFault' = TRUE
             /\ UNCHANGED <<tmp, lines, wbuf>>
        [] fault = "none" ->
             /\ tmp' = Some(<<>>)
             /\ lines' = Lines(file)
             /\ wbuf' = <<>>
             /\ pc' = next
             /\ UNCHANGED <<outcome, ioFault>>

\* execute_update and execute_delete: the header line is read and written to
\* the temporary file with a line feed.
WriteHeader(next) ==
    \E readOk \in BOOLEAN, diskOk \in BOOLEAN :
      IF lines = <<>> \/ ~readOk
      THEN /\ Exit("InvalidTable")
           /\ ioFault' = (lines # <<>>)
           /\ DropWriter
           /\ lines' = lines
      ELSE LET w == BufWriteHeader(wbuf, Head(lines), diskOk)
           IN  IF w.err
               THEN /\ Exit("GenericError")
                    /\ ioFault' = TRUE
                    /\ tmp' = Some(tmp[1] \o w.out \o w.buf)
                    /\ wbuf' = <<>>
                    /\ lines' = Tail(lines)
               ELSE /\ tmp' = Some(tmp[1] \o w.out)
                    /\ wbuf' = w.buf
                    /\ lines' = Tail(lines)
                    /\ pc' = next
                    /\ UNCHANGED <<outcome, ioFault>>

\* execute_update and execute_delete: one turn of the loop over the data
\* lines.  written is the status and the text the turn writes.
ProcessRow(written) ==
    \E readOk \in BOOLEAN, diskOk \in BOOLEAN :
      IF ~readOk
      THEN /\ Exit("InvalidTable") /\ ioFault' = TRUE
           /\ DropWriter /\ lines' = lines
      ELSE IF written.status # "ok"
      THEN /\ Exit(written.status) /\ ioFault' = ioFault
           /\ DropWriter /\ lines' = Tail(lines)
      ELSE LET w == IF written.val = <<>>
                    THEN [buf |-> wbuf, out |-> <<>>, err |-> FALSE]
                    ELSE BufWriteAll(wbuf, written.val, diskOk)
           IN  IF w.err
               THEN /\ Exit("GenericError")
                    /\ ioFault' = TRUE
                    /\ tmp' = Some(tmp[1] \o w.out \o w.buf)
                    /\ wbuf' = <<>>
                    /\ lines' = Tail(lines)
               ELSE /\ tmp' = Some(tmp[1] \o w.out)
                    /\ wbuf' = w.buf
                    /\ lines' = Tail(lines)
                    /\ UNCHANGED <<pc, outcome, ioFault>>

\* execute_update and execute_delete: the temporary file is renamed to the
\* table file.  The BufWriter is still alive: what its buffer holds is not in
\* the file yet.
Rename(next) ==
    \E ok \in BOOLEAN :
      IF ok
      THEN /\ file' = tmp[1]
           /\ tmp' = None
           /\ pc' = next
           /\ UNCHANGED <<wbuf, outcome, ioFault>>
      ELSE /\ Exit("GenericError") /\ ioFault' = TRUE
           /\ DropWriter
           /\ file' = file

\* execute_update and execute_delete return Ok(()): the BufWriter is dropped,
\* and what its buffer holds is written to its file, now the table file.
Return ==
    /\ file' = file \o wbuf
    /\ wbuf' = <<>>
    /\ Exit("Ok")

\* execute_update, lines 131-149
UpdateOpenFiles ==
    /\ pc = "update"
    /\ IF \E i \in 1..Len(query.assignments) :
             query.assignments[i].column \notin DOMAIN schema
       THEN Exit("InvalidColumn") /\ UNCHANGED <<tmp, lines, wbuf, ioFault>>
       ELSE OpenFiles("update_header")
    /\ UNCHANGED <<file, input, tokens, query, schema, output, file0>>

\* execute_update, lines 151-164
UpdateWriteHeader ==
    /\ pc = "update_header"
    /\ WriteHeader("update_rows")
    /\ UNCHANGED <<file, input, tokens, query, schema, output, file0>>

\* execute_update, lines 166-190
UpdateProcessRow ==
    /\ pc = "update_rows"
    /\ lines # <<>>
    /\ ProcessRow(UpdatedLine(Head(lines), query, schema))
    /\ UNCHANGED <<file, input, tokens, query, schema, output, file0>>

\* A variant of UpdateRename that does not wait for the end of the scan.
UpdateRenameEarly ==
    /\ pc = "update_rows"
    /\ Rename("update_rows")
    /\ UNCHANGED <<input, tokens, query, schema, lines, output, file0>>

\* execute_update, lines 192-194
UpdateRename ==
    /\ pc = "update_rows"
    /\ lines = <<>>
    /\ Rename("update_return")
    /\ UNCHANGED <<input, tokens, query, schema, lines, output, file0>>

\* execute_update, lines 196-197
UpdateReturn ==
    /\ pc = "update_return"
    /\ Return
    /\ UNCHANGED <<tmp, input, tokens, query, schema, lines, output, file0, ioFault>>

\* execute_delete, lines 207-215
DeleteOpenFiles ==
    /\ pc = "delete"
    /\ OpenFiles("delete_header")
    /\ UNCHANGED <<file, input, tokens, query, schema, output, file0>>

\* execute_delete, lines 217-230
DeleteWriteHeader ==
    /\ pc = "delete_header"
    /\ WriteHeader("delete_rows")
    /\ UNCHANGED <<file, input, tokens, query, schema, output, file0>>

\* execute_delete, lines 232-250
DeleteProcessRow ==
    /\ pc = "delete_rows"
    /\ lines # <<>>
    /\ ProcessRow(KeptLine(Head(lines), query, schema))
    /\ UNCHANGED <<file, input, tokens, query, schema, output, file0>>

\* execute_delete, lines 252-254
DeleteRename ==
    /\ pc = "delete_rows"
    /\ lines = <<>>
    /\ Rename("delete_return")
    /\ UNCHANGED <<input, tokens, query, schema, lines, output, file0>>

\* execute_delete, lines 256-257
DeleteReturn ==
    /\ pc = "delete_return"
    /\ Return
    /\ UNCHANGED <<tmp, input, tokens, query, schema, lines, output, file0, ioFault>>

Next ==
    \/ Tokenize
    \/ Parse
    \/ ReadTableSchema
    \/ ExecuteSelect
    \/ ExecuteInsert
    \/ UpdateOpenFiles
    \/ UpdateWriteHeader
    \/ UpdateProcessRow
    \/ UpdateRename
    \/ UpdateReturn
    \/ DeleteOpenFiles
    \/ DeleteWriteHeader
    \/ DeleteProcessRow
    \/ DeleteRename
    \/ DeleteReturn

Spec == Init /\ [][Next]_vars

(***************************************************************************)
(* Runs on any table file                                                  *)
(***************************************************************************)

\* The most data rows of a table file of any shape at the start of a run.
MaxAnyRows == 2

\* Data rows of the header's width, narrower and wider.
AnyRowTexts == RowTexts \cup { <<"a">>, <<"a",",","b",",","a">> }

\* Table files of any shape: the header line and up to MaxAnyRows data rows
\* of any width, with or without the line feed of the last line, and the
\* file that holds nothing.
AnyFiles ==
    LET texts == {Unlines(<<HeaderText>> \o rows) :
                     rows \in UNION {[1..n -> AnyRowTexts] : n \in 0..MaxAnyRows}}
    IN  texts \cup {SubSeq(t, 1, Len(t) - 1) : t \in texts} \cup {<<>>}

InitAny ==
    /\ file \in AnyFiles
    /\ file0 = file
    /\ tmp = None
    /\ input = <<>>
    /\ tokens = <<>>
    /\ query = NoQuery
    /\ pc = "main"
    /\ schema = <<>>
    /\ lines = <<>>
    /\ wbuf = <<>>
    /\ outcome = "none"
    /\ output = <<>>
    /\ ioFault = FALSE

\* One run of the program on a table file of any shape.
SpecAny == InitAny /\ [][Next]_vars

(***************************************************************************)
(* execute_query on a statement tree of any shape                          *)
(***************************************************************************)

\* The operands without operands of their own: columns the table has and has
\* not, and literals.
Operands == { Column(<<"x">>), Column(<<"y">>), Column(<<"z">>),
              Literal(<<"a">>), Literal(<<"b">>) }

\* The operators of the trees.
TreeOperators == { <<"=">>, <<"<">> }

\* Expressions of every shape: an operand alone, a BinaryOp of two operands,
\* and a BinaryOp with a BinaryOp for an operand.
Expressions ==
    LET flat == {BinaryOp(l, op, r) : l \in Operands, op \in TreeOperators,
                                      r \in Operands}
        inner == BinaryOp(Column(<<"x">>), <<"=">>, Literal(<<"a">>))
        nested == {BinaryOp(l, <<"=">>, r) :
                      l \in Operands \cup {inner}, r \in Operands \cup {inner}}
    IN  Operands \cup flat \cup nested

\* The tables of the runs on a tree: the header line and one data row.
OneRowFiles == {Unlines(<<HeaderText, row>>) : row \in RowTexts}

\* execute_query is called with a SELECT * whose WHERE clause is any
\* expression.
InitTree ==
    /\ file \in OneRowFiles
    /\ file0 = file
    /\ tmp = None
    /\ input = <<>>
    /\ tokens = <<>>
    /\ query \in {SelectQuery(<< <<"*">> >>, TableName, Some(e), None) :
                     e \in Expressions}
    /\ pc = "execute"
    /\ schema = <<>>
    /\ lines = <<>>
    /\ wbuf = <<>>
    /\ outcome = "none"
    /\ output = <<>>
    /\ ioFault = FALSE

NextTree ==
    \/ ReadTableSchema
    \/ ExecuteSelect

SpecTree == InitTree /\ [][NextTree]_vars

(***************************************************************************)
(* tokenize on any text                                                    *)
(***************************************************************************)

\* The most characters of a text.
MaxTextLen == 4

\* The characters of the texts: two letters that spell a keyword, the
\* underscore, a digit, the space and the quote.
TextChars == {"b", "Y", "_", "1", " ", "'"}

\* Every text of up to MaxTextLen of these characters.
Texts == UNION {[1..n -> TextChars] : n \in 0..MaxTextLen}

InitText ==
    /\ file \in {Unlines(<<HeaderText>>)}
    /\ file0 = file
    /\ tmp = None
    /\ input \in Texts
    /\ tokens = <<>>
    /\ query = NoQuery
    /\ pc = "main"
    /\ schema = <<>>
    /\ lines = <<>>
    /\ wbuf = <<>>
    /\ outcome = "none"
    /\ output = <<>>
    /\ ioFault = FALSE

\* main: the text is tokenized.
TokenizeText ==
    /\ pc = "main"
    /\ LET t == tokenize(input)
       IN  /\ tokens' = t.tokens
           /\ IF t.err = "none"
              THEN pc' = "parse" /\ outcome' = outcome
              ELSE Exit(t.err)
    /\ UNCHANGED <<file, tmp, input, query, schema, lines, wbuf, output, file0,
                   ioFault>>

\* tokenize applied to a text.
SpecText == InitText /\ [][TokenizeText]_vars

(***************************************************************************)
(* One statement after another on the same table                          *)
(***************************************************************************)

\* The table may hold this many characters when another statement is run on
\* it.
MaxSeqLen == 16

\* The tables the first statement finds: the header alone, or with one row.
SeqFiles == { Unlines(<<HeaderText>>), Unlines(<<HeaderText, <<"a",",","b">>>>) }

InsertText(table, rest) ==
    <<"I","N","S","E","R","T">> \o Sp \o <<"I","N","T","O">> \o Sp \o table
    \o Sp \o rest

\* INSERT, UPDATE and DELETE statements; some literals hold a comma or a
\* line feed.
SeqInputs ==
    { InsertText(TableName, <<"V","A","L","U","E","S">> \o Sp \o <<"(">>
                 \o Quoted(<<"a">>) \o <<",">> \o Quoted(<<"b">>) \o <<")">>),
      InsertText(TableName, <<"(","y",")">> \o Sp \o <<"V","A","L","U","E","S">>
                 \o Sp \o <<"(">> \o Quoted(<<"b">>) \o <<")">>),
      InsertText(TableName, <<"V","A","L","U","E","S">> \o Sp \o <<"(">>
                 \o Quoted(<<"a",",","b">>) \o <<",">> \o Quoted(<<"c">>)
                 \o <<")">>),
      InsertText(TableName, <<"(","x",")">> \o Sp \o <<"V","A","L","U","E","S">>
                 \o Sp \o <<"(">> \o Quoted(<<"a","\n">>) \o <<")">>),
      UpdateText(TableName, <<"x","=">> \o Quoted(<<"b">>), <<>>),
      UpdateText(TableName, <<"y","=">> \o Quoted(<<"c",",","d">>),
                 WhereText(<<"x">>, <<"=">>, <<"a">>)),
      UpdateText(TableName, <<"y","=">> \o Quoted(<<"a">>),
                 WhereText(<<"x">>, <<"=">>, <<"b">>)),
      DeleteText(TableName, <<>>),
      DeleteText(TableName, WhereText(<<"x">>, <<"=">>, <<"a">>)) }

InitSeq ==
    /\ file \in SeqFiles
    /\ file0 = file
    /\ tmp = None
    /\ input = <<>>
    /\ tokens = <<>>
    /\ query = NoQuery
    /\ pc = "main"
    /\ schema = <<>>
    /\ lines = <<>>
    /\ wbuf = <<>>
    /\ outcome = "none"
    /\ output = <<>>
    /\ ioFault = FALSE

\* main: the statement text is tokenized.
TokenizeSeq ==
    /\ pc = "main"
    /\ \E text \in SeqInputs :
         LET t == tokenize(text)
         IN  /\ input' = text
             /\ tokens' = t.tokens
             /\ IF t.err = "none"
                THEN pc' = "parse" /\ outcome' = outcome
                ELSE Exit(t.err)
    /\ UNCHANGED <<file, tmp, query, schema, lines, wbuf, output, file0, ioFault>>

\* The program is run again on the table the successful statement has left.
Again ==
    /\ pc = "exit"
    /\ outcome = "Ok"
    /\ Len(file) <= MaxSeqLen
    /\ file0' = file
    /\ tmp' = None
    /\ input' = <<>>
    /\ tokens' = <<>>
    /\ query' = NoQuery
    /\ pc' = "main"
    /\ schema' = <<>>
    /\ lines' = <<>>
    /\ wbuf' = <<>>
    /\ outcome' = "none"
    /\ output' = <<>>
    /\ ioFault' = FALSE
    /\ UNCHANGED file

NextSeq ==
    \/ TokenizeSeq
    \/ Parse
    \/ ReadTableSchema
    \/ ExecuteInsert
    \/ UpdateOpenFiles
    \/ UpdateWriteHeader
    \/ UpdateProcessRow
    \/ UpdateRename
    \/ UpdateReturn
    \/ DeleteOpenFiles
    \/ DeleteWriteHeader
    \/ DeleteProcessRow
    \/ DeleteRename
    \/ DeleteReturn
    \/ Again

SpecSeq == InitSeq /\ [][NextSeq]_vars

(***************************************************************************)
(* What the properties below speak of                                      *)
(***************************************************************************)

\* The run has ended.
Finished == pc = "exit"

\* The run has ended with Ok(()).
Succeeded == pc = "exit" /\ outcome = "Ok"

\* The table file when the run began: its header line, its data rows and the
\* column names of the header.
Header0 == Head(Lines(file0))
Rows0 == Tail(Lines(file0))
Names0 == Split(Header0, ",")

\* The fields of a row.
Fields(line) == Split(line, ",")

\* A column of the table, and its position among the fields of a row.
Known(name) == \E k \in 1..Len(Names0) : Names0[k] = name
Position(name) == CHOOSE k \in 1..Len(Names0) : Names0[k] = name

\* The relation an operator stands for, on the raw text of two fields.
Relation(op, a, b) ==
    CASE op = <<"=">> -> a = b
      [] op = <<"<",">">> -> a # b
      [] op = <<"<">> -> StrCmp(a, b) < 0
      [] op = <<">">> -> StrCmp(a, b) > 0
      [] op = <<"<","=">> -> StrCmp(a, b) <= 0
      [] op = <<">","=">> -> StrCmp(a, b) >= 0

\* The predicate column op literal holds of a row.
Holds(predicate, line) ==
    Relation(predicate.op, Fields(line)[Position(predicate.left.text)],
             predicate.right.text)

\* The statement assigns to a column; the literal it ends up with is the one
\* of the last assignment to it.
IsAssigned(name) ==
    \E i \in 1..Len(query.assignments) : query.assignments[i].column = name
AssignedValue(name) ==
    LET at == {i \in 1..Len(query.assignments) : query.assignments[i].column = name}
    IN  query.assignments[CHOOSE i \in at : \A k \in at : k <= i].value

\* The fields of a row after the statement's assignments.
AssignedFields(line) ==
    [k \in 1..Len(Fields(line)) |->
        IF IsAssigned(Names0[k]) THEN AssignedValue(Names0[k]) ELSE Fields(line)[k]]

UpdateWithoutWhere ==
    Succeeded /\ query.kind = "Update" /\ query.where_clause = None
UpdateWithWhere ==
    Succeeded /\ query.kind = "Update" /\ query.where_clause # None

(***************************************************************************)
(* UPDATE with no WHERE clause                                             *)
(***************************************************************************)

C2_DeleteKeepsTheOtherRows ==
    (Succeeded /\ query.kind = "Delete") =>
        LET kept(line) == query.where_clause = None
                          \/ ~Holds(query.where_clause[1], line)
        IN  Lines(file) = <<Header0>> \o SelectSeq(Rows0, kept)

\* A DELETE with a WHERE clause has removed a row and kept another.
C2_Witness ==
    /\ Succeeded /\ query.kind = "Delete" /\ query.where_clause # None
    /\ Len(Lines(file)) < Len(Lines(file0))
    /\ Len(Lines(file)) >= 2

(***************************************************************************)
(* UPDATE with a WHERE clause                                              *)
(***************************************************************************)

\* C3: after a successful UPDATE with a WHERE predicate, every row the
\* predicate holds of has each assigned column's field replaced by the
\* assigned literal and its other fields unchanged, every other row is as it
\* was, and the header line, the number of data rows and the row order are
\* unchanged.
C3_UpdateAssignsTheMatchingRows ==
    UpdateWithWhere =>
        LET old == Lines(file0)
            new == Lines(file)
        IN  /\ Len(new) = Len(old)
            /\ new[1] = old[1]
            /\ \A i \in 2..Len(old) :
                 IF Holds(query.where_clause[1], old[i])
                 THEN Fields(new[i]) = AssignedFields(old[i])
                 ELSE new[i] = old[i]

\* An UPDATE with a WHERE clause has changed a row and passed over another.
C3_Witness ==
    /\ UpdateWithWhere
    /\ \E i, j \in 2..Len(Lines(file0)) :
         /\ Holds(query.where_clause[1], Lines(file0)[i])
         /\ Lines(file)[i] # Lines(file0)[i]
         /\ ~Holds(query.where_clause[1], Lines(file0)[j])

(***************************************************************************)
(* UPDATE and DELETE that fail                                             *)
(***************************************************************************)

\* C4: when an UPDATE or a DELETE ends with an error, the content of the
\* table file is what it was before the statement; a temporary file may be
\* left behind.
C4_FailedRewriteLeavesTheTable ==
    (Finished /\ query.kind \in {"Update", "Delete"} /\ outcome # "Ok")
        => file = file0

\* An UPDATE or a DELETE has failed after it wrote to the temporary file, and
\* the temporary file is left behind.
C4_Witness ==
    /\ Finished /\ query.kind \in {"Update", "Delete"} /\ outcome # "Ok"
    /\ tmp # None
    /\ tmp[1] # <<>>


(***************************************************************************)
(* SELECT with neither WHERE nor ORDER BY                                  *)
(***************************************************************************)

\* The statement's select list is the lone *.
SelectsAll == query.columns = << <<"*">> >>

\* The columns a SELECT prints, in the order of its list.
SelectedNames == IF SelectsAll THEN Names0 ELSE query.columns

\* A row projected to the selected columns, as it is printed.
Projected(line) ==
    Join([i \in 1..Len(SelectedNames) |-> Fields(line)[Position(SelectedNames[i])]],
         ",")

\* A SELECT on the table with no WHERE and no ORDER BY whose list is the lone
\* * or names columns of the table only, run with no failure of a file
\* operation.
PlainSelect ==
    /\ Finished /\ query.kind = "Select" /\ query.table = TableName
    /\ query.where_clause = None /\ query.order_by = None
    /\ SelectsAll \/ \A i \in 1..Len(query.columns) : Known(query.columns[i])
    /\ ~ioFault

\* C5: a SELECT with no WHERE and no ORDER BY whose list is the lone * or
\* names existing columns only prints a header line of the selected column
\* names in the requested order and then every data row of the table,
\* projected to those columns, in file order.
C5_SelectPrintsEveryRow ==
    PlainSelect =>
        /\ outcome = "Ok"
        /\ output = <<Join(SelectedNames, ",")>> \o
                    [i \in 1..Len(Rows0) |-> Projected(Rows0[i])]

\* Such a SELECT has printed several rows with the columns in another order
\* than the table has them.
C5_Witness ==
    /\ PlainSelect /\ outcome = "Ok"
    /\ query.columns = << <<"y">>, <<"x">> >>
    /\ Len(Rows0) >= 2
    /\ \E i \in 1..Len(Rows0) : Projected(Rows0[i]) # Rows0[i]

(***************************************************************************)
(* INSERT                                                                  *)
(***************************************************************************)

\* The columns an INSERT targets: its list, or every column of the table.
TargetColumns == IF query.columns = <<>> THEN Names0 ELSE query.columns

\* The literal an INSERT supplies for a column, the last one when the list
\* names the column more than once; the empty text when it names it not.
Supplied(name) ==
    LET at == {i \in 1..Len(TargetColumns) : TargetColumns[i] = name}
    IN  IF at = {} THEN <<>>
        ELSE query.values[CHOOSE i \in at : \A k \in at : k <= i]

\* What SELECT * FROM t prints on a table file.
SelectStar(content) ==
    LET q == SelectQuery(<< <<"*">> >>, TableName, None, None)
        columns == read_table_schema(content)
    IN  process_rows(Lines(content), columns, q,
                     get_selected_indices(q, columns).val)

\* C6: a successful INSERT appends exactly one line to the table file and
\* leaves every earlier line unchanged; the new row has one field per column
\* of the table, the supplied literal at each ordinal the column list names
\* and the empty text elsewhere; a following SELECT * prints it as the last
\* row.
C6_InsertAppendsOneRow ==
    (Succeeded /\ query.kind = "Insert") =>
        LET old == Lines(file0)
            new == Lines(file)
            printed == SelectStar(file)
        IN  /\ Len(new) = Len(old) + 1
            /\ SubSeq(new, 1, Len(old)) = old
            /\ SubSeq(file, 1, Len(file0)) = file0
            /\ Fields(new[Len(new)]) =
                   [k \in 1..Len(Names0) |-> Supplied(Names0[k])]
            /\ printed.status = "ok"
            /\ Len(printed.val) = Len(new)
            /\ printed.val[Len(new)] = new[Len(new)]

\* An INSERT that names the second column only has appended a row to a table
\* that had rows.
C6_Witness ==
    /\ Succeeded /\ query.kind = "Insert"
    /\ query.columns = << <<"y">> >>
    /\ query.values # << <<>> >>
    /\ Len(Rows0) >= 1

(***************************************************************************)
(* SELECT with ORDER BY                                                    *)
(***************************************************************************)

\* The rows a SELECT's WHERE clause lets through, in scan order.
Filtered ==
    LET included(line) == query.where_clause = None
                          \/ Holds(query.where_clause[1], line)
    IN  SelectSeq(Rows0, included)

\* The sort key of a row.
Key(line) == Fields(line)[Position(query.order_by[1].column)]

\* A SELECT with ORDER BY that printed its result, run with no failure of a
\* file operation.
OrderedSelect ==
    Succeeded /\ query.kind = "Select" /\ query.order_by # None /\ ~ioFault

\* C7: with ORDER BY on a selected column the result rows are a permutation
\* of the filtered rows, ordered by the raw text of the key column:
\* non-decreasing for ASC or no direction, non-increasing for DESC; rows with
\* equal keys keep their scan order in both directions.
C7_OrderByIsAStableSort ==
    OrderedSelect =>
        LET n == Len(Filtered)
            rows == Tail(output)
        IN  /\ Len(rows) = n
            /\ \E p \in [1..n -> 1..n] :
                 /\ \A i, j \in 1..n : i # j => p[i] # p[j]
                 /\ \A i \in 1..n : rows[i] = Projected(Filtered[p[i]])
                 /\ \A i, j \in 1..n :
                      i < j =>
                        LET c == StrCmp(Key(Filtered[p[i]]), Key(Filtered[p[j]]))
                        IN  /\ IF query.order_by[1].ascending THEN c <= 0 ELSE c >= 0
                            /\ c = 0 => p[i] < p[j]

\* A SELECT has sorted three or more rows in descending order, two different
\* rows among them with equal keys and two with different keys.
C7_Witness ==
    /\ OrderedSelect
    /\ ~query.order_by[1].ascending
    /\ SelectsAll
    /\ Len(Filtered) >= 3
    /\ \E i, j, k \in 1..Len(Filtered) :
         /\ i < j
         /\ Key(Filtered[i]) = Key(Filtered[j])
         /\ Filtered[i] # Filtered[j]
         /\ Key(Filtered[k]) # Key(Filtered[i])

(***************************************************************************)
(* SELECT of a column the table does not have                              *)
(***************************************************************************)

\* The SELECT names, in its list, its WHERE clause or its ORDER BY, a column
\* the table does not have.
RefersToUnknownColumn ==
    \/ ~SelectsAll /\ \E i \in 1..Len(query.columns) : ~Known(query.columns[i])
    \/ query.where_clause # None /\ ~Known(query.where_clause[1].left.text)
    \/ query.order_by # None /\ ~Known(query.order_by[1].column)

\* C8: a SELECT that refers, in its list, its WHERE clause or its ORDER BY,
\* to a column the table does not have ends with InvalidColumn whatever rows
\* the table has, none included, and leaves the table file unchanged.
C8_UnknownColumnIsRejected ==
    (/\ Finished /\ query.kind = "Select" /\ query.table = TableName
     /\ ~ioFault /\ RefersToUnknownColumn)
        => outcome = "InvalidColumn" /\ file = file0

(***************************************************************************)
(* The comparison operators                                                *)
(***************************************************************************)

\* The six operators of the specification.
ComparisonOperators ==
    { <<"=">>, <<"<">>, <<">">>, <<"<","=">>, <<">","=">>, <<"<",">">> }

\* C9: each of =, <, >, <=, >= and <> between a column and a literal is
\* tokenized and parsed into one BinaryOp with that operator, the column on
\* its left and the literal on its right, and is evaluated as that relation
\* on the raw text: a DELETE removes the rows it holds of, a SELECT prints
\* them.
C9_OperatorsAreParsedAndEvaluated ==
    \A op \in ComparisonOperators, column \in {<<"x">>, <<"y">>},
       literal \in {<<"a">>, <<"b">>} :
        LET where == WhereText(column, op, literal)
            predicate == BinaryOp(Column(column), op, Literal(literal))
            matching(line) == Relation(op, Fields(line)[Position(column)], literal)
            others(line) == ~matching(line)
        IN  (/\ input \in {DeleteText(TableName, where),
                           SelectText(<<"*">>, TableName, where)}
             /\ pc \notin {"main", "parse"})
            => /\ query.where_clause = Some(predicate)
               /\ (Succeeded /\ ~ioFault) =>
                    IF query.kind = "Delete"
                    THEN Lines(file) = <<Header0>> \o SelectSeq(Rows0, others)
                    ELSE Tail(output) = SelectSeq(Rows0, matching)

(***************************************************************************)
(* INSERT that is rejected                                                 *)
(***************************************************************************)

\* An INSERT on the table has ended, the schema read and no file operation
\* failed.
InsertEnded ==
    Finished /\ query.kind = "Insert" /\ query.table = TableName /\ ~ioFault

\* The INSERT names a column the table does not have.
NamesUnknownColumn == \E i \in 1..Len(query.columns) : ~Known(query.columns[i])

\* The INSERT has another number of values than of target columns.
CountsDiffer == Len(query.values) # Len(TargetColumns)

\* C10, as the specification states it: an INSERT that names a column the
\* table does not have ends with InvalidColumn, an INSERT whose number of
\* values differs from its number of target columns ends with InvalidSyntax,
\* and neither appends anything.
C10_InsertIsValidated ==
    InsertEnded =>
        /\ NamesUnknownColumn => outcome = "InvalidColumn" /\ file = file0
        /\ CountsDiffer => outcome = "InvalidSyntax" /\ file = file0

\* C10, as the code has it: an INSERT that names a column the table does not
\* have ends with InvalidColumn; an INSERT whose named columns all exist and
\* whose number of values differs from its number of target columns ends with
\* InvalidSyntax; neither appends anything.
C10_InsertChecksColumnsThenCounts ==
    InsertEnded =>
        /\ NamesUnknownColumn => outcome = "InvalidColumn" /\ file = file0
        /\ (~NamesUnknownColumn /\ CountsDiffer) =>
               outcome = "InvalidSyntax" /\ file = file0

\* An INSERT that names an unknown column and has too many values has ended
\* with InvalidColumn.
C10_Witness ==
    /\ InsertEnded
    /\ NamesUnknownColumn
    /\ CountsDiffer
    /\ outcome = "InvalidColumn"

(***************************************************************************)
(* The outcomes of a run                                                   *)
(***************************************************************************)

\* The kinds of SQLError.
ErrorKinds == {"InvalidTable", "InvalidColumn", "InvalidSyntax", "GenericError"}

\* C11: for every parsed statement and every table file, the files whose data
\* rows are narrower or wider than the header included, the run ends with
\* success or with an SQLError and in no other way: no field access out of
\* range aborts it.
C11_RunEndsWithOkOrError ==
    Finished => outcome \in {"Ok"} \cup ErrorKinds

(***************************************************************************)
(* The tree of a SELECT                                                    *)
(***************************************************************************)

\* The items of a select list as written: the text between the commas, the
\* spaces left out.
ListItems(list) ==
    LET parts == Split(list, ",")
        NotSpace(ch) == ch # " "
    IN  [i \in 1..Len(parts) |-> SelectSeq(parts[i], NotSpace)]

\* The WHERE clauses of the grammar on the columns and literals of the
\* statements: col op literal with one of the six operators.
GrammarWhereTexts ==
    {WhereText(column, op, literal) :
        column \in {<<"x">>, <<"y">>, <<"z">>}, op \in ComparisonOperators,
        literal \in {<<"a">>, <<"b">>}}

\* C12: parsing a SELECT statement yields a Select tree whose columns are the
\* items of the select list in written order, * recorded as the item "*",
\* whose table is the identifier after FROM, whose where_clause is present
\* exactly when a WHERE clause was written and whose order_by is present
\* exactly when an ORDER BY clause was written.
C12_SelectIsParsedIntoItsTree ==
    \A list \in SelectLists, where \in {<<>>} \cup GrammarWhereTexts,
       order \in OrderTexts :
        (/\ input = SelectText(list, TableName, where \o order)
         /\ pc \notin {"main", "parse"})
        => /\ query.kind = "Select"
           /\ query.columns = ListItems(list)
           /\ query.table = TableName
           /\ query.where_clause # None <=> where # <<>>
           /\ query.order_by # None <=> order # <<>>

(***************************************************************************)
(* The table file while UPDATE and DELETE rewrite it                       *)
(***************************************************************************)

\* The complete table an UPDATE or a DELETE rewrites the table to.
Rewritten ==
    LET selected(line) == Holds(query.where_clause[1], line)
        updated(line) == IF query.where_clause = None \/ selected(line)
                         THEN Join(AssignedFields(line), ",")
                         ELSE line
        kept(line) == query.where_clause = None \/ ~selected(line)
    IN  IF query.kind = "Update"
        THEN Unlines(<<Header0>> \o [i \in 1..Len(Rows0) |-> updated(Rows0[i])])
        ELSE Unlines(<<Header0>> \o SelectSeq(Rows0, kept))

\* C13: in an UPDATE or a DELETE the header and every output row are in the
\* temporary file before the rename replaces the table file: the table file
\* holds the complete original table or the complete rewritten table at every
\* moment, never a part of a table.
C13_TableFileIsNeverPartial ==
    query.kind \in {"Update", "Delete"} =>
        /\ pc \in {"update_return", "delete_return"} => wbuf = <<>>
        /\ file = file0 \/ file = Rewritten

(***************************************************************************)
(* The shapes evaluate_where_clause accepts                                *)
(***************************************************************************)

\* The SELECT on a one-row table has ended with no failure of a file
\* operation: its WHERE clause was evaluated once, on the row.
Evaluated ==
    /\ Finished /\ query.kind = "Select" /\ query.where_clause # None
    /\ Len(Rows0) = 1 /\ ~ioFault

\* The evaluation returned a boolean: the row was printed or left out.
ReturnedBoolean == outcome = "Ok"

IsOperand(e) == e.type \in {"Column", "Literal"}

\* A BinaryOp of one Column and one Literal, in either position.
ColumnWithLiteral(e) ==
    /\ e.type = "BinaryOp"
    /\ {e.left.type, e.right.type} = {"Column", "Literal"}

\* A BinaryOp whose two operands are each a Column or a Literal.
FlatBinaryOp(e) ==
    e.type = "BinaryOp" /\ IsOperand(e.left) /\ IsOperand(e.right)

StoreUntouched ==
    /\ file = file0
    /\ tmp = None
    /\ schema = <<>>
    /\ lines = <<>>
    /\ wbuf = <<>>
    /\ output = <<>>
    /\ ~ioFault

\* C15: the table store is read or written only after tokenize and parse have
\* both succeeded; a run in which tokenize or parse fails ends with that
\* error as its only outcome, with no statement tree, the table file and its
\* directory neither read nor modified.
C15_StoreIsTouchedAfterParse ==
    /\ pc \in {"main", "parse"} => StoreUntouched
    /\ ~StoreUntouched => query # NoQuery
    /\ (Finished /\ query = NoQuery) =>
           outcome = "InvalidSyntax" /\ StoreUntouched

\* A run has ended in parse: the statement was tokenized, no tree was made.
C15_Witness ==
    /\ Finished /\ query = NoQuery
    /\ Len(tokens) > 1
    /\ outcome = "InvalidSyntax"

(***************************************************************************)
(* AND and OR in a WHERE clause                                            *)
(***************************************************************************)

\* C16: a SELECT, an UPDATE or a DELETE whose WHERE clause goes on with AND
\* or OR after the first predicate is rejected by parse with InvalidSyntax;
\* the parser of the WHERE clause consumes exactly three tokens, an
\* identifier, an operator and a literal, and never a keyword.
C16_SecondPredicateIsRejected ==
    /\ (input \in ConnectiveInputs /\ pc \notin {"main", "parse"}) =>
           Finished /\ outcome = "InvalidSyntax" /\ query = NoQuery
    /\ \A i \in 0..Len(tokens) :
         LET e == parse_expression(tokens, i)
         IN  e.err = "none" =>
               /\ e.index = i + 3
               /\ TokenAt(tokens, i).type = "Identifier"
               /\ TokenAt(tokens, i + 1).type = "Operator"
               /\ TokenAt(tokens, i + 2).type = "Literal"

\* An UPDATE whose WHERE clause goes on with OR has been rejected by parse.
C16_Witness ==
    /\ input = UpdateText(TableName, <<"x","=">> \o Quoted(<<"b">>),
                          SecondPredicate(<<"O","R">>))
    /\ Finished
    /\ outcome = "InvalidSyntax"
    /\ \E i \in 1..Len(tokens) : tokens[i] = Tok("Keyword", <<"O","R">>)

(***************************************************************************)
(* Identifiers and keywords                                                *)
(***************************************************************************)

\* The characters of a run: letters, digits and the underscore.
WordChars == UpperLetters \cup LowerLetters \cup Digits \cup {"_"}

\* The maximal runs of these characters in a text from position i on, in
\* order.
RECURSIVE WordsFrom(_, _)
WordsFrom(text, i) ==
    IF i > Len(text) THEN <<>>
    ELSE IF text[i] \notin WordChars THEN WordsFrom(text, i + 1)
    ELSE LET j == CHOOSE k \in i..Len(text) :
                      /\ \A m \in i..k : text[m] \in WordChars
                      /\ k = Len(text) \/ text[k + 1] \notin WordChars
         IN  <<SubSeq(text, i, j)>> \o WordsFrom(text, j + 1)

\* The token the specification gives a run.
WordToken(run) ==
    IF ToUppercase(run) \in KeywordSet
    THEN Tok("Keyword", ToUppercase(run))
    ELSE Tok("Identifier", run)

\* The keywords and identifiers of a token sequence, in order.
WordTokens(toks) ==
    LET IsWord(t) == t.type \in {"Keyword", "Identifier"}
    IN  SelectSeq(toks, IsWord)

\* A text with its quoted literals blanked: the quotes and what is between a
\* quote and the next one, or the end of the text.
Unquoted(text) ==
    [i \in 1..Len(text) |->
        IF text[i] = "'"
           \/ Cardinality({k \in 1..i : text[k] = "'"}) % 2 = 1
        THEN " " ELSE text[i]]

\* A run without the digits it begins with.
RECURSIVE AfterDigits(_)
AfterDigits(run) ==
    IF run # <<>> /\ Head(run) \in Digits THEN AfterDigits(Tail(run)) ELSE run

\* tokenize has been applied to the text.
Tokenized == pc # "main"

\* C17, as the specification states it: tokenize turns every maximal run of
\* letters, digits and underscores into exactly one token, a Keyword with the
\* upper-cased text when the upper-cased run is a keyword, else an Identifier
\* with the run as written.  The runs are those outside the quoted literals,
\* and a run of digits alone, which the specification makes a Literal, is
\* not counted.
C17_EveryRunIsOneToken ==
    Tokenized =>
        LET runs == WordsFrom(Unquoted(input), 1)
            NotDigits(r) == AfterDigits(r) # <<>>
            words == SelectSeq(runs, NotDigits)
        IN  /\ outcome = "none"
            /\ WordTokens(tokens) = [i \in 1..Len(words) |-> WordToken(words[i])]

\* C17, as the code has it: when tokenize succeeds, every maximal run of
\* letters, digits and underscores outside the quoted literals that begins
\* with a letter has become exactly one token, a Keyword with the upper-cased
\* text when the upper-cased run is a keyword, else an Identifier with the
\* run as written; of a run that begins with digits, the digits become a
\* Literal and the rest is a run of its own; a run or a rest that begins with
\* an underscore makes tokenize fail with InvalidSyntax.
C17_RunsThatBeginWithALetter ==
    Tokenized =>
        LET runs == WordsFrom(Unquoted(input), 1)
            rests == [i \in 1..Len(runs) |-> AfterDigits(runs[i])]
            NotEmpty(r) == r # <<>>
            words == SelectSeq(rests, NotEmpty)
        IN  IF \E i \in 1..Len(words) : Head(words[i]) = "_"
            THEN outcome = "InvalidSyntax"
            ELSE /\ outcome = "none"
                 /\ WordTokens(tokens) =
                        [i \in 1..Len(words) |-> WordToken(words[i])]

\* A text with a keyword in mixed case and a run that begins with a digit
\* has been tokenized.
C17_Witness ==
    /\ Tokenized /\ outcome = "none"
    /\ \E i \in 1..Len(tokens) : tokens[i] = Tok("Keyword", <<"B","Y">>)
    /\ \E i \in 1..Len(tokens) : tokens[i] = Tok("Literal", <<"1">>)
    /\ \E i \in 1..Len(input) : input[i] = "b"

(***************************************************************************)
(* The end of a statement                                                  *)
(***************************************************************************)

\* C18: parse succeeds only when the whole token sequence is one statement:
\* after the statement body the cursor is at a Semicolon immediately followed
\* by EOF, or at EOF itself, so that no token is left unexamined.
C18_ParseExaminesEveryToken ==
    pc # "main" =>
        LET parsed == parse(tokens)
        IN  parsed.err = "none" =>
              \/ TokenAt(tokens, parsed.index).type = "EOF"
              \/ /\ TokenAt(tokens, parsed.index).type = "Semicolon"
                 /\ TokenAt(tokens, parsed.index + 1).type = "EOF"

(***************************************************************************)
(* The table file stays well-formed                                        *)
(***************************************************************************)

\* A header of distinct column names, every data row with as many
\* comma-separated fields as the header, every line ended by a line feed.
WellFormedTable(content) ==
    /\ content # <<>>
    /\ content[Len(content)] = "\n"
    /\ LET ls == Lines(content)
           names == Split(Head(ls), ",")
       IN  /\ \A i, j \in 1..Len(names) : names[i] = names[j] => i = j
           /\ \A i \in 2..Len(ls) : Len(Split(ls[i], ",")) = Len(names)

\* No literal the statement writes holds a comma or a line feed.
CleanLiterals ==
    LET Clean(text) == \A i \in 1..Len(text) : text[i] \notin {",", "\n"}
    IN  /\ \A i \in 1..Len(query.values) : Clean(query.values[i])
        /\ \A i \in 1..Len(query.assignments) : Clean(query.assignments[i].value)

\* C19, as the specification states it: after any sequence of successful INSERT, UPDATE and DELETE
\* statements on a well-formed table, whatever their literals, the table is
\* well-formed and has the header it began with.
C19_TableStaysWellFormed ==
    Succeeded => (WellFormedTable(file) /\ Head(Lines(file)) = HeaderText)

\* C19, as the code has it: a successful INSERT, UPDATE or DELETE whose literals hold no
\* comma and no line feed leaves a well-formed table well-formed, with the
\* same header; so does any sequence of such statements.
C19_CleanLiteralsKeepTheTableWellFormed ==
    (Succeeded /\ WellFormedTable(file0) /\ CleanLiterals) =>
        (WellFormedTable(file) /\ Head(Lines(file)) = Head(Lines(file0)))

\* The second or a later statement of a sequence has changed a well-formed
\* table that earlier statements had made.
C19_Witness ==
    /\ Succeeded
    /\ file0 \notin SeqFiles
    /\ WellFormedTable(file0)
    /\ CleanLiterals
    /\ query.kind = "Update"
    /\ file # file0
    /\ Len(Lines(file)) = 3

====
